---- MODULE Spec2Model ----
(***************************************************************************)
(* Ownership primitives of the Smart-pointers repository.                  *)
(*                                                                         *)
(* Part I  : SharedPtr / WeakPtr over BaseControlBlock (src/weak).         *)
(* Part II : UniquePtr over CompressedPair (src/unique).                   *)
(* Part III: IntrusivePtr over RefCounted (src/intrusive).                 *)
(* Part V  : CompressedPair and its CaseSwitch (src/unique).               *)
(* Part IV : the WeakPtr of the self-referencing variant                   *)
(*            (src/shared-from-this).                                      *)
(*                                                                         *)
(* Each part keeps a heap of its own.  The payload types are list nodes:    *)
(*     struct Node  { SharedPtr<Node> next; WeakPtr<Node> back; };         *)
(*     struct UNode { UniquePtr<UNode> next; };                            *)
(*     struct INode : SimpleRefCounted<INode> { IntrusivePtr<INode> next; };*)
(* so a payload destructor releases pointers of its own, and every handler *)
(* is executed to its end, nested destructor calls included.               *)
(*                                                                         *)
(* size_t counters are kept as integers; a value -k stands for 2^64 - k    *)
(* (++, -- and == 0 agree with arithmetic modulo 2^64 on this range).      *)
(*                                                                         *)
(* Operations with undefined behaviour (second destructor run, access to a *)
(* freed block, ...) are recorded in ub.  Their outcome is a choice of the *)
(* build: "crash" stops the handler at that point, "continue" goes on with *)
(* the bytes still readable.  Nothing is executed after a handler in which *)
(* such an operation happened.                                             *)
(***************************************************************************)
EXTENDS Integers, FiniteSets, Sequences, TLC

\* ------------------------------------------------------------------ bounds
\* blocks (and payloads) ever allocated; handler calls explored
MaxBlocks == 2
MaxOps == 5
\* objects ever handed to a UniquePtr, or to an IntrusivePtr
MaxObjs == 2

NullPtr == 0
\* the address of a sub-object of a payload, as passed to the aliasing
\* constructor
FieldAddr == 9

VARIABLES blk, obj, sp, wp, up, uobj, ip, iobj, eblk, esp, ewp, cp, ub, last,
          ops

vars ==
  <<blk, obj, sp, wp, up, uobj, ip, iobj, eblk, esp, ewp, cp, ub, last, ops>>

Blocks == 1..MaxBlocks

\* The client declares the locals  SharedPtr<Node> p, q;  WeakPtr<Node> w;
\* every other pointer is a member of a payload.
RootShared == {1, 2}
RootWeak == {1}
SharedSlots == RootShared \cup {Cardinality(RootShared) + b : b \in Blocks}
WeakSlots == RootWeak \cup {Cardinality(RootWeak) + b : b \in Blocks}

\* member slots of the payload governed by block b
NextSlot(b) == Cardinality(RootShared) + b
BackSlot(b) == Cardinality(RootWeak) + b

UBOutcomes == {"crash", "continue"}

NoBlock ==
  [st |-> "none", kind |-> "none", shared_counter_ |-> 0, weak_counter_ |-> 0,
   ptr_ |-> NullPtr, was_data_deleted_ |-> FALSE, frees |-> 0, uaf |-> FALSE]

NoPayload == [st |-> "none", dtors |-> 0]

EmptyPtr == [alive |-> FALSE, obj_ |-> NullPtr, block_ |-> NullPtr]

\* ---------------------------------------------------------------- the heap
Heap(m) ==
  [blk |-> blk, obj |-> obj, sp |-> sp, wp |-> wp, ub |-> "none",
   halted |-> FALSE, mode |-> m]

\* an operation with undefined behaviour happens
Ub(H, ev) ==
  [H EXCEPT !.ub = IF @ = "none" THEN ev ELSE @,
            !.halted = (@ \/ H.mode = "crash")]

\* a null block pointer is dereferenced: the process stops whatever the build
NullDeref(H) == [Ub(H, "null_dereference") EXCEPT !.halted = TRUE]

\* any access to the fields (or the vtable) of block b
Touch(H, b) ==
  IF H.halted THEN H
  ELSE IF H.blk[b].st = "freed"
       THEN Ub([H EXCEPT !.blk[b].uaf = TRUE], "block_use_after_free")
       ELSE H

\* any access to the fields of a pointer object
TouchShared(H, s) ==
  IF H.halted \/ H.sp[s].alive THEN H ELSE Ub(H, "pointer_use_after_destroy")

TouchWeak(H, w) ==
  IF H.halted \/ H.wp[w].alive THEN H ELSE Ub(H, "pointer_use_after_destroy")

\* the rest F of a handler runs on the heap H unless the process has stopped
Then(H, F(_)) == IF H.halted THEN H ELSE F(H)

\* ------------------------------------------------------- BaseControlBlock
IncrementShared(H, b) ==
  Then(Touch(H, b), LAMBDA T : [T EXCEPT !.blk[b].shared_counter_ = @ + 1])

IncrementWeak(H, b) ==
  Then(Touch(H, b), LAMBDA T : [T EXCEPT !.blk[b].weak_counter_ = @ + 1])

DecrementWeak(H, b) ==
  Then(Touch(H, b), LAMBDA T : [T EXCEPT !.blk[b].weak_counter_ = @ - 1])

GetSharedCount(H, b) == H.blk[b].shared_counter_

GetWeakCount(H, b) == H.blk[b].weak_counter_

CanBlockBeDeleted(H, b) ==
  H.blk[b].shared_counter_ = 0 /\ H.blk[b].weak_counter_ = 0

RECURSIVE DecrementShared(_, _)
RECURSIVE DeleteData(_, _)
RECURSIVE DeleteBlock(_, _)
RECURSIVE PayloadDtor(_, _)
RECURSIVE SharedPtr_Reset(_, _)
RECURSIVE WeakPtr_Reset(_, _)

\* ~SharedPtr: Reset(), then the object is gone
SharedPtr_Dtor(H, s) ==
  Then(SharedPtr_Reset(H, s), LAMBDA R : [R EXCEPT !.sp[s].alive = FALSE])

\* ~WeakPtr: Reset(), then the object is gone
WeakPtr_Dtor(H, w) ==
  Then(WeakPtr_Reset(H, w), LAMBDA R : [R EXCEPT !.wp[w].alive = FALSE])

\* a destructor run starts on the payload of block b; on a payload that is
\* not alive (never constructed, already destroyed or being destroyed) it is
\* undefined
PayloadDtor_Enter(H, b) ==
  IF H.obj[b].st = "alive"
  THEN [H EXCEPT !.obj[b].dtors = @ + 1]
  ELSE Ub([H EXCEPT !.obj[b].dtors = @ + 1],
          IF H.obj[b].st = "none" THEN "destroy_unconstructed"
          ELSE "payload_double_destroy")

\* ~Node on the payload of block b: members go in reverse order of
\* declaration, back first, next second; when the build goes on after an
\* undefined run, the members are read as they are.
PayloadDtor(H, b) ==
  Then(H, LAMBDA G :
    Then(PayloadDtor_Enter(G, b), LAMBDA H1 :
      Then(SharedPtr_Dtor(
             WeakPtr_Dtor([H1 EXCEPT !.obj[b].st = "destroying"], BackSlot(b)),
             NextSlot(b)),
           LAMBDA H4 : [H4 EXCEPT !.obj[b].st = "destroyed"])))

\* PtrControlBlock::DeleteData / MakeSharedControlBlock::DeleteData
DeleteData(H, b) ==
  Then(Touch(H, b), LAMBDA T :
    IF T.blk[b].kind = "ptr"
    THEN IF T.blk[b].ptr_ # NullPtr
         THEN Then(Touch(PayloadDtor(T, b), b),
                   LAMBDA D : [D EXCEPT !.blk[b].ptr_ = NullPtr])
         ELSE T
    ELSE IF ~T.blk[b].was_data_deleted_
         THEN Then(Touch(PayloadDtor(T, b), b),
                   LAMBDA D : [D EXCEPT !.blk[b].was_data_deleted_ = TRUE])
         ELSE T)

DecrementShared(H, b) ==
  Then(Touch(H, b), LAMBDA T :
    Then([T EXCEPT !.blk[b].shared_counter_ = @ - 1], LAMBDA D :
      IF D.blk[b].shared_counter_ = 0 THEN DeleteData(D, b) ELSE D))

\* delete block_: ~PtrControlBlock / ~MakeSharedControlBlock, then the memory
\* of the block is returned
DeleteBlock(H, b) ==
  Then(H, LAMBDA G :
    Then(IF G.blk[b].st = "live" THEN G ELSE Ub(G, "block_double_free"),
         LAMBDA H0 :
      Then([H0 EXCEPT !.blk[b].st = "deleting"], LAMBDA H1 :
        Then(IF H1.blk[b].kind = "ptr" THEN DeleteData(H1, b)
             ELSE IF ~H1.blk[b].was_data_deleted_ THEN PayloadDtor(H1, b)
             ELSE H1,
             LAMBDA H2 :
               [H2 EXCEPT !.blk[b].st = "freed", !.blk[b].frees = @ + 1]))))

\* the tail of both Reset(): block_->CanBlockBeDeleted(), delete block_;
\* block_ is a member and is read again after the call that precedes it
ReleaseBlock(H, b) ==
  Then(Touch(H, b), LAMBDA T :
    IF CanBlockBeDeleted(T, b) THEN DeleteBlock(T, b) ELSE T)

SharedPtr_Reset(H, s) ==
  Then(TouchShared(H, s), LAMBDA T :
    IF T.sp[s].block_ = NullPtr THEN [T EXCEPT !.sp[s].obj_ = NullPtr]
    ELSE
      Then(TouchShared(DecrementShared([T EXCEPT !.sp[s].obj_ = NullPtr],
                                       T.sp[s].block_), s),
           LAMBDA H2 :
        Then(IF H2.sp[s].block_ = NullPtr THEN NullDeref(H2)
             ELSE ReleaseBlock(H2, H2.sp[s].block_),
             LAMBDA H3 : [H3 EXCEPT !.sp[s].block_ = NullPtr])))

WeakPtr_Reset(H, w) ==
  Then(TouchWeak(H, w), LAMBDA T :
    IF T.wp[w].block_ = NullPtr THEN [T EXCEPT !.wp[w].obj_ = NullPtr]
    ELSE
      Then(TouchWeak(DecrementWeak([T EXCEPT !.wp[w].obj_ = NullPtr],
                                   T.wp[w].block_), w),
           LAMBDA H2 :
        Then(IF H2.wp[w].block_ = NullPtr THEN NullDeref(H2)
             ELSE ReleaseBlock(H2, H2.wp[w].block_),
             LAMBDA H3 : [H3 EXCEPT !.wp[w].block_ = NullPtr])))

\* --------------------------------------------------------------- SharedPtr
SharedPtr_Swap(H, a, b) ==
  Then(TouchShared(TouchShared(H, a), b), LAMBDA T :
       [T EXCEPT !.sp[a].obj_ = T.sp[b].obj_, !.sp[a].block_ = T.sp[b].block_,
                 !.sp[b].obj_ = T.sp[a].obj_, !.sp[b].block_ = T.sp[a].block_])

\* members initialised from (obj, block); shared by several constructors
SharedPtr_Init(H, d, o, b) ==
  [H EXCEPT !.sp[d] = [alive |-> TRUE, obj_ |-> o, block_ |-> b]]

\* a copy constructor that leaves out block_->IncrementShared()
SharedPtr_CopyCtor_NoIncrement(H, d, s) ==
  SharedPtr_Init(H, d, H.sp[s].obj_, H.sp[s].block_)

\* SharedPtr(const SharedPtr& other)
SharedPtr_CopyCtor(H, d, s) ==
  LET H1 == SharedPtr_Init(H, d, H.sp[s].obj_, H.sp[s].block_) IN
  IF H1.sp[d].block_ # NullPtr THEN IncrementShared(H1, H1.sp[d].block_) ELSE H1

\* SharedPtr(SharedPtr&& other)
SharedPtr_MoveCtor(H, d, s) ==
  SharedPtr_Swap(SharedPtr_Init(H, d, NullPtr, NullPtr), d, s)

\* an aliasing constructor that leaves out block_->IncrementShared()
SharedPtr_AliasCtor_NoIncrement(H, d, s, a) ==
  SharedPtr_Init(H, d, a, H.sp[s].block_)

\* SharedPtr(const SharedPtr<Y>& other, T* ptr)
SharedPtr_AliasCtor(H, d, s, a) ==
  LET H1 == SharedPtr_Init(H, d, a, H.sp[s].block_) IN
  IF H1.sp[d].block_ # NullPtr THEN IncrementShared(H1, H1.sp[d].block_) ELSE H1

\* WeakPtr::Expired
WeakPtr_Expired(H, w) ==
  IF H.wp[w].block_ # NullPtr
  THEN GetSharedCount(H, H.wp[w].block_) = 0
  ELSE TRUE

\* does SharedPtr(const WeakPtr&, from_lock) throw BadWeakPtr
SharedPtr_FromWeakThrows(H, w, from_lock) ==
  H.wp[w].block_ # NullPtr /\ WeakPtr_Expired(H, w) /\ ~from_lock

\* SharedPtr(const WeakPtr<T>& other, bool from_lock); when it throws the
\* object under construction never comes to exist
SharedPtr_FromWeak(H, d, w, from_lock) ==
  LET H1 == SharedPtr_Init(H, d, H.wp[w].obj_, H.wp[w].block_) IN
  IF H1.sp[d].block_ = NullPtr THEN H1
  ELSE IF WeakPtr_Expired(H1, w)
       THEN IF from_lock
            THEN IncrementShared([H1 EXCEPT !.sp[d].obj_ = NullPtr],
                                 H1.sp[d].block_)
            ELSE [H1 EXCEPT !.sp[d] = EmptyPtr]
       ELSE IncrementShared(H1, H1.sp[d].block_)

\* operator=(const SharedPtr& other)
SharedPtr_CopyAssign(H, d, s) ==
  IF d = s THEN H
  ELSE
    Then(TouchShared(TouchShared(SharedPtr_Reset(H, d), s), d), LAMBDA R :
      Then([R EXCEPT !.sp[d].obj_ = R.sp[s].obj_,
                     !.sp[d].block_ = R.sp[s].block_],
           LAMBDA H1 : IF H1.sp[d].block_ # NullPtr
                       THEN IncrementShared(H1, H1.sp[d].block_)
                       ELSE H1))

\* operator=(SharedPtr&& other)
SharedPtr_MoveAssign(H, d, s) ==
  IF d = s THEN H ELSE SharedPtr_Swap(SharedPtr_Reset(H, d), d, s)

\* observers, on the pointers spv over the blocks blkv
SharedPtr_UseCount(spv, blkv, s) ==
  IF spv[s].block_ # NullPtr THEN blkv[spv[s].block_].shared_counter_ ELSE 0

UseCount(s) == SharedPtr_UseCount(sp, blk, s)

UseCountAfter(s) == SharedPtr_UseCount(sp', blk', s)

Get(s) == sp[s].obj_

Bool(s) == sp[s].block_ # NullPtr

\* ----------------------------------------------------------------- WeakPtr
WeakPtr_Swap(H, a, b) ==
  Then(TouchWeak(TouchWeak(H, a), b), LAMBDA T :
       [T EXCEPT !.wp[a].obj_ = T.wp[b].obj_, !.wp[a].block_ = T.wp[b].block_,
                 !.wp[b].obj_ = T.wp[a].obj_, !.wp[b].block_ = T.wp[a].block_])

WeakPtr_Init(H, d, o, b) ==
  [H EXCEPT !.wp[d] = [alive |-> TRUE, obj_ |-> o, block_ |-> b]]

\* WeakPtr(const WeakPtr& other)
WeakPtr_CopyCtor(H, d, w) ==
  LET H1 == WeakPtr_Init(H, d, H.wp[w].obj_, H.wp[w].block_) IN
  IF H.wp[w].block_ # NullPtr THEN IncrementWeak(H1, H1.wp[d].block_) ELSE H1

\* WeakPtr(WeakPtr&& other)
WeakPtr_MoveCtor(H, d, w) ==
  WeakPtr_Swap(WeakPtr_Init(H, d, NullPtr, NullPtr), d, w)

\* WeakPtr(const SharedPtr<T>& other)
WeakPtr_FromShared(H, d, s) ==
  LET H1 == WeakPtr_Init(H, d, H.sp[s].obj_, H.sp[s].block_) IN
  IF H1.wp[d].block_ # NullPtr THEN IncrementWeak(H1, H1.wp[d].block_) ELSE H1

\* operator=(const WeakPtr& other)
WeakPtr_CopyAssign(H, d, w) ==
  IF d = w THEN H
  ELSE
    Then(TouchWeak(TouchWeak(WeakPtr_Reset(H, d), w), d), LAMBDA R :
      Then([R EXCEPT !.wp[d].obj_ = R.wp[w].obj_,
                     !.wp[d].block_ = R.wp[w].block_],
           LAMBDA H1 : IF H1.wp[d].block_ # NullPtr
                       THEN IncrementWeak(H1, H1.wp[d].block_)
                       ELSE H1))

\* operator=(WeakPtr&& other): no self test
WeakPtr_MoveAssign(H, d, w) == WeakPtr_Swap(WeakPtr_Reset(H, d), d, w)

WeakUseCount(w) ==
  IF wp[w].block_ # NullPtr THEN blk[wp[w].block_].shared_counter_ ELSE 0

Expired(w) ==
  IF wp[w].block_ # NullPtr THEN blk[wp[w].block_].shared_counter_ = 0 ELSE TRUE

\* ------------------------------------------------------------ construction
\* new Node: both members default-constructed
NewNode(H, b) ==
  [H EXCEPT !.obj[b] = [st |-> "alive", dtors |-> 0],
            !.sp[NextSlot(b)] = [EmptyPtr EXCEPT !.alive = TRUE],
            !.wp[BackSlot(b)] = [EmptyPtr EXCEPT !.alive = TRUE]]

\* new PtrControlBlock<T>(ptr)
PtrControlBlock_New(H, b, ptr) ==
  IncrementShared(
    [H EXCEPT !.blk[b] = [NoBlock EXCEPT !.st = "live", !.kind = "ptr",
                                         !.ptr_ = ptr]], b)

\* new MakeSharedControlBlock<T>
MakeSharedControlBlock_New(H, b) ==
  IncrementShared(
    [H EXCEPT !.blk[b] = [NoBlock EXCEPT !.st = "live", !.kind = "make"]], b)

\* SharedPtr(T* ptr) on a freshly allocated Node
SharedPtr_FromRaw(H, d, b) ==
  SharedPtr_Init(PtrControlBlock_New(NewNode(H, b), b, b), d, b, b)

\* MakeShared<T>(args...): ok says whether T's constructor returns
MakeShared(H, d, b, ok) ==
  IF ok THEN SharedPtr_Init(NewNode(MakeSharedControlBlock_New(H, b), b), d, b, b)
  ELSE DeleteBlock(MakeSharedControlBlock_New(H, b), b)

\* ----------------------------------------------------------------- actions
AliasAddrs == {NullPtr, FieldAddr}

HasFresh == \E b \in Blocks : blk[b].st = "none"

\* blocks are handed out in order
Fresh == CHOOSE b \in Blocks :
           blk[b].st = "none" /\ \A c \in Blocks : c < b => blk[c].st # "none"

Op(o, d, s, a, t) == [op |-> o, dst |-> d, src |-> s, arg |-> a, thrown |-> t]

\* no handler runs after undefined behaviour; MaxOps handler calls are explored
Commit(H, l) ==
  /\ ub = "none"
  /\ ops < MaxOps
  /\ blk' = H.blk
  /\ obj' = H.obj
  /\ sp' = H.sp
  /\ wp' = H.wp
  /\ ub' = H.ub
  /\ last' = l
  /\ ops' = ops + 1
  /\ UNCHANGED <<up, uobj, ip, iobj, eblk, esp, ewp, cp>>

\* a pointer the program can name: a local, or a member of a live payload
LiveShared == {s \in SharedSlots : sp[s].alive}
LiveWeak == {w \in WeakSlots : wp[w].alive}
\* a new local takes the first unused place (locals are interchangeable)
FreeShared ==
  {d \in RootShared : ~sp[d].alive /\ \A e \in RootShared : e < d => sp[e].alive}
FreeWeak ==
  {d \in RootWeak : ~wp[d].alive /\ \A e \in RootWeak : e < d => wp[e].alive}

SharedDefault ==
  \E d \in FreeShared :
    Commit(SharedPtr_Init(Heap("crash"), d, NullPtr, NullPtr),
           Op("SharedDefault", d, 0, 0, "none"))

SharedFromRaw ==
  /\ HasFresh
  /\ \E d \in FreeShared :
       Commit(SharedPtr_FromRaw(Heap("crash"), d, Fresh),
              Op("SharedFromRaw", d, 0, Fresh, "none"))

MakeSharedOp ==
  /\ HasFresh
  /\ \E d \in FreeShared, ok \in BOOLEAN, m \in UBOutcomes :
       Commit(MakeShared(Heap(m), d, Fresh, ok),
              Op("MakeShared", d, 0, Fresh, IF ok THEN "none" ELSE "ctor"))

SharedCopy ==
  \E d \in FreeShared, s \in LiveShared :
    Commit(SharedPtr_CopyCtor(Heap("crash"), d, s),
           Op("SharedCopy", d, s, 0, "none"))

SharedMove ==
  \E d \in FreeShared, s \in LiveShared :
    Commit(SharedPtr_MoveCtor(Heap("crash"), d, s),
           Op("SharedMove", d, s, 0, "none"))

SharedAlias ==
  \E d \in FreeShared, s \in LiveShared, a \in AliasAddrs :
    Commit(SharedPtr_AliasCtor(Heap("crash"), d, s, a),
           Op("SharedAlias", d, s, a, "none"))

\* SharedPtr<T>(w): strict promotion
SharedPromote ==
  \E d \in FreeShared, w \in LiveWeak :
    Commit(SharedPtr_FromWeak(Heap("crash"), d, w, FALSE),
           Op("SharedPromote", d, w, 0,
              IF SharedPtr_FromWeakThrows(Heap("crash"), w, FALSE)
              THEN "BadWeakPtr" ELSE "none"))

\* w.Lock()
WeakLock ==
  \E d \in FreeShared, w \in LiveWeak :
    Commit(SharedPtr_FromWeak(Heap("crash"), d, w, TRUE),
           Op("WeakLock", d, w, 0,
              IF SharedPtr_FromWeakThrows(Heap("crash"), w, TRUE)
              THEN "BadWeakPtr" ELSE "none"))

SharedCopyAssign ==
  \E d \in LiveShared, s \in LiveShared, m \in UBOutcomes :
    Commit(SharedPtr_CopyAssign(Heap(m), d, s),
           Op("SharedCopyAssign", d, s, 0, "none"))

SharedMoveAssign ==
  \E d \in LiveShared, s \in LiveShared, m \in UBOutcomes :
    Commit(SharedPtr_MoveAssign(Heap(m), d, s),
           Op("SharedMoveAssign", d, s, 0, "none"))

SharedReset ==
  \E s \in LiveShared, m \in UBOutcomes :
    Commit(SharedPtr_Reset(Heap(m), s), Op("SharedReset", s, 0, 0, "none"))

SharedDestroy ==
  \E s \in LiveShared \cap RootShared, m \in UBOutcomes :
    Commit(SharedPtr_Dtor(Heap(m), s), Op("SharedDestroy", s, 0, 0, "none"))

SharedSwap ==
  \E a \in LiveShared, b \in LiveShared :
    /\ a < b
    /\ Commit(SharedPtr_Swap(Heap("crash"), a, b),
              Op("SharedSwap", a, b, 0, "none"))

WeakDefault ==
  \E d \in FreeWeak :
    Commit(WeakPtr_Init(Heap("crash"), d, NullPtr, NullPtr),
           Op("WeakDefault", d, 0, 0, "none"))

WeakCopy ==
  \E d \in FreeWeak, w \in LiveWeak :
    Commit(WeakPtr_CopyCtor(Heap("crash"), d, w),
           Op("WeakCopy", d, w, 0, "none"))

WeakMove ==
  \E d \in FreeWeak, w \in LiveWeak :
    Commit(WeakPtr_MoveCtor(Heap("crash"), d, w),
           Op("WeakMove", d, w, 0, "none"))

WeakFromShared ==
  \E d \in FreeWeak, s \in LiveShared :
    Commit(WeakPtr_FromShared(Heap("crash"), d, s),
           Op("WeakFromShared", d, s, 0, "none"))

WeakCopyAssign ==
  \E d \in LiveWeak, w \in LiveWeak, m \in UBOutcomes :
    Commit(WeakPtr_CopyAssign(Heap(m), d, w),
           Op("WeakCopyAssign", d, w, 0, "none"))

WeakMoveAssign ==
  \E d \in LiveWeak, w \in LiveWeak, m \in UBOutcomes :
    Commit(WeakPtr_MoveAssign(Heap(m), d, w),
           Op("WeakMoveAssign", d, w, 0, "none"))

WeakReset ==
  \E w \in LiveWeak, m \in UBOutcomes :
    Commit(WeakPtr_Reset(Heap(m), w), Op("WeakReset", w, 0, 0, "none"))

WeakDestroy ==
  \E w \in LiveWeak \cap RootWeak, m \in UBOutcomes :
    Commit(WeakPtr_Dtor(Heap(m), w), Op("WeakDestroy", w, 0, 0, "none"))

WeakSwap ==
  \E a \in LiveWeak, b \in LiveWeak :
    /\ a < b
    /\ Commit(WeakPtr_Swap(Heap("crash"), a, b),
              Op("WeakSwap", a, b, 0, "none"))

\* =========================================================================
\* Part II : UniquePtr<T, Deleter> (src/unique/unique.h).  The payload type is
\*     struct UNode { UniquePtr<UNode> next; };
\* and data_ is the pair (handle, deleter).
\* =========================================================================
UObjs == 1..MaxObjs

\* The client declares the locals  UniquePtr<UNode, Deleter> u, v;
RootUnique == {1, 2}
UniqueSlots == RootUnique \cup {Cardinality(RootUnique) + o : o \in UObjs}

\* member slot of object o
UNextSlot(o) == Cardinality(RootUnique) + o

\* the value of Deleter(), and the deleter values a client can pass
DefaultDeleter == 0
Deleters == {DefaultDeleter, 1}

NoUObj == [st |-> "none", disposed |-> 0, by |-> DefaultDeleter,
           released |-> FALSE]

NoUnique == [alive |-> FALSE, first |-> NullPtr, second |-> DefaultDeleter]

UHeap(m) == [up |-> up, uobj |-> uobj, ub |-> "none", halted |-> FALSE,
             mode |-> m]

\* any access to data_ of a UniquePtr object
TouchUnique(U, s) ==
  IF U.halted \/ U.up[s].alive THEN U ELSE Ub(U, "pointer_use_after_destroy")

RECURSIVE UniquePtr_Reset(_, _, _)

\* ~UniquePtr: Reset(), then the object is gone
UniquePtr_Dtor(U, s) ==
  Then(UniquePtr_Reset(U, s, NullPtr),
       LAMBDA R : [R EXCEPT !.up[s].alive = FALSE])

\* a delete expression starts on object o; on an object that is not alive it
\* is undefined
DeleterCall_Enter(U, del, o) ==
  IF U.uobj[o].st = "alive"
  THEN [U EXCEPT !.uobj[o].disposed = @ + 1, !.uobj[o].by = del]
  ELSE Ub([U EXCEPT !.uobj[o].disposed = @ + 1, !.uobj[o].by = del],
          "object_double_dispose")

\* deleter(ptr): delete ptr, which runs ~UNode and with it ~UniquePtr of next
DeleterCall(U, del, o) ==
  Then(U, LAMBDA G :
    Then(DeleterCall_Enter(G, del, o), LAMBDA U1 :
      Then(UniquePtr_Dtor([U1 EXCEPT !.uobj[o].st = "destroying"],
                          UNextSlot(o)),
           LAMBDA U3 : [U3 EXCEPT !.uobj[o].st = "destroyed"])))

\* a Reset(ptr) that disposes of the old handle with the deleter of the new
\* pair
UniquePtr_Reset_NewDeleter(U, s, ptr) ==
  Then(TouchUnique(U, s), LAMBDA T :
    IF T.up[s].first # NullPtr
    THEN DeleterCall([T EXCEPT !.up[s].first = ptr,
                               !.up[s].second = DefaultDeleter],
                     DefaultDeleter, T.up[s].first)
    ELSE [T EXCEPT !.up[s].first = ptr, !.up[s].second = DefaultDeleter])

\* Reset(ptr): data_ is swapped with (ptr, Deleter()), then the pair swapped
\* out disposes of its handle with its deleter
UniquePtr_Reset(U, s, ptr) ==
  Then(TouchUnique(U, s), LAMBDA T :
    IF T.up[s].first # NullPtr
    THEN DeleterCall([T EXCEPT !.up[s].first = ptr,
                               !.up[s].second = DefaultDeleter],
                     T.up[s].second, T.up[s].first)
    ELSE [T EXCEPT !.up[s].first = ptr, !.up[s].second = DefaultDeleter])

\* UniquePtr(T* ptr = nullptr)  and  UniquePtr(T* ptr, Deleter deleter)
UniquePtr_Init(U, d, ptr, del) ==
  [U EXCEPT !.up[d] = [alive |-> TRUE, first |-> ptr, second |-> del]]

UniquePtr_Swap(U, a, b) ==
  Then(TouchUnique(TouchUnique(U, a), b), LAMBDA T :
       [T EXCEPT !.up[a].first = T.up[b].first,
                 !.up[a].second = T.up[b].second,
                 !.up[b].first = T.up[a].first,
                 !.up[b].second = T.up[a].second])

\* a Release() that leaves the handle in data_
UniquePtr_Release_KeepsHandle(U, s) == TouchUnique(U, s)

\* Release(): the handle leaves, the deleter stays
UniquePtr_Release(U, s) ==
  Then(TouchUnique(U, s), LAMBDA T : [T EXCEPT !.up[s].first = NullPtr])

\* GetDeleter() = std::forward<DerivedDeleter>(other.GetDeleter())
UniquePtr_AssignDeleter(U, d, s) ==
  Then(TouchUnique(TouchUnique(U, d), s),
       LAMBDA T : [T EXCEPT !.up[d].second = T.up[s].second])

\* a move constructor that copies the handle and leaves the source alone
UniquePtr_MoveCtor_Copies(U, d, s) ==
  Then(TouchUnique(U, s), LAMBDA T :
       UniquePtr_Init(T, d, T.up[s].first, T.up[s].second))

\* UniquePtr(UniquePtr&& other)
UniquePtr_MoveCtor(U, d, s) ==
  UniquePtr_Swap(UniquePtr_Init(U, d, NullPtr, DefaultDeleter), d, s)

\* UniquePtr(UniquePtr<DerivedType, DerivedDeleter>&& other): data_ starts
\* value-initialised, takes the released handle, then the deleter is assigned
UniquePtr_ConvMoveCtor(U, d, s) ==
  UniquePtr_AssignDeleter(
    UniquePtr_Reset(
      UniquePtr_Release(UniquePtr_Init(U, d, NullPtr, DefaultDeleter), s),
      d, U.up[s].first),
    d, s)

\* operator=(UniquePtr&& other)
UniquePtr_MoveAssign(U, d, s) ==
  IF d = s THEN U
  ELSE UniquePtr_Swap(UniquePtr_Reset(U, d, NullPtr), d, s)

\* operator=(std::nullptr_t)
UniquePtr_NullAssign(U, d) == UniquePtr_Reset(U, d, NullPtr)

\* operator=(UniquePtr<DerivedType, DerivedDeleter>&& other)
UniquePtr_ConvMoveAssign(U, d, s) ==
  UniquePtr_AssignDeleter(
    UniquePtr_Reset(UniquePtr_Release(U, s), d, U.up[s].first), d, s)

UniquePtr_Get(s) == up[s].first

UniquePtr_Bool(s) == up[s].first # NullPtr

\* new UNode: its member next is default-constructed
NewUNode(U, o) ==
  [U EXCEPT !.uobj[o].st = "alive",
            !.up[UNextSlot(o)] = [alive |-> TRUE, first |-> NullPtr,
                                  second |-> DefaultDeleter]]

\* ------------------------------------------------------- actions of Part II
UHasFresh == \E o \in UObjs : uobj[o].st = "none"

UFresh == CHOOSE o \in UObjs :
            uobj[o].st = "none" /\ \A c \in UObjs : c < o => uobj[c].st # "none"

UCommit(U, l) ==
  /\ ub = "none"
  /\ ops < MaxOps
  /\ up' = U.up
  /\ uobj' = U.uobj
  /\ ub' = U.ub
  /\ last' = l
  /\ ops' = ops + 1
  /\ UNCHANGED <<blk, obj, sp, wp, ip, iobj, eblk, esp, ewp, cp>>

LiveUnique == {s \in UniqueSlots : up[s].alive}
FreeUnique ==
  {d \in RootUnique : ~up[d].alive /\ \A e \in RootUnique : e < d => up[e].alive}

UniqueDefault ==
  \E d \in FreeUnique :
    UCommit(UniquePtr_Init(UHeap("crash"), d, NullPtr, DefaultDeleter),
            Op("UniqueDefault", d, 0, 0, "none"))

UniqueFromRaw ==
  /\ UHasFresh
  /\ \E d \in FreeUnique, del \in Deleters :
       UCommit(UniquePtr_Init(NewUNode(UHeap("crash"), UFresh), d, UFresh, del),
               Op("UniqueFromRaw", d, 0, UFresh, "none"))

UniqueMove ==
  \E d \in FreeUnique, s \in LiveUnique :
    UCommit(UniquePtr_MoveCtor(UHeap("crash"), d, s),
            Op("UniqueMove", d, s, 0, "none"))

UniqueConvMove ==
  \E d \in FreeUnique, s \in LiveUnique :
    UCommit(UniquePtr_ConvMoveCtor(UHeap("crash"), d, s),
            Op("UniqueConvMove", d, s, 0, "none"))

UniqueMoveAssign ==
  \E d \in LiveUnique, s \in LiveUnique, m \in UBOutcomes :
    UCommit(UniquePtr_MoveAssign(UHeap(m), d, s),
            Op("UniqueMoveAssign", d, s, 0, "none"))

UniqueNullAssign ==
  \E d \in LiveUnique, m \in UBOutcomes :
    UCommit(UniquePtr_NullAssign(UHeap(m), d),
            Op("UniqueNullAssign", d, 0, 0, "none"))

UniqueConvMoveAssign ==
  \E d \in LiveUnique, s \in LiveUnique, m \in UBOutcomes :
    /\ d # s
    /\ UCommit(UniquePtr_ConvMoveAssign(UHeap(m), d, s),
               Op("UniqueConvMoveAssign", d, s, 0, "none"))

\* Release(): the caller now owns the handle
UniqueRelease ==
  \E s \in LiveUnique :
    LET ptr == up[s].first
        R == UniquePtr_Release(UHeap("crash"), s)
    IN UCommit(IF ptr = NullPtr THEN R
               ELSE [R EXCEPT !.uobj[ptr].released = TRUE],
               Op("UniqueRelease", s, 0, ptr, "none"))

UniqueReset ==
  \E s \in LiveUnique, m \in UBOutcomes :
    \/ UCommit(UniquePtr_Reset(UHeap(m), s, NullPtr),
               Op("UniqueReset", s, 0, NullPtr, "none"))
    \/ /\ UHasFresh
       /\ UCommit(UniquePtr_Reset(NewUNode(UHeap(m), UFresh), s, UFresh),
                  Op("UniqueReset", s, 0, UFresh, "none"))

UniqueSwap ==
  \E a \in LiveUnique, b \in LiveUnique :
    /\ a < b
    /\ UCommit(UniquePtr_Swap(UHeap("crash"), a, b),
               Op("UniqueSwap", a, b, 0, "none"))

UniqueDestroy ==
  \E s \in LiveUnique \cap RootUnique, m \in UBOutcomes :
    UCommit(UniquePtr_Dtor(UHeap(m), s), Op("UniqueDestroy", s, 0, 0, "none"))

\* =========================================================================
\* Part III : IntrusivePtr<T> over RefCounted (src/intrusive/intrusive.h).
\* The payload type is
\*     struct INode : SimpleRefCounted<INode> { IntrusivePtr<INode> next; };
\* =========================================================================
IObjs == 1..MaxObjs

\* The client declares the locals  IntrusivePtr<INode> a, b;
RootIntrusive == {1, 2}
IntrusiveSlots == RootIntrusive \cup {Cardinality(RootIntrusive) + o : o \in IObjs}

\* member slot of object o
INextSlot(o) == Cardinality(RootIntrusive) + o

NoIObj == [st |-> "none", count_ |-> 0, destroys |-> 0]

NoIntrusive == [alive |-> FALSE, obj_ |-> NullPtr]

IHeap(m) == [ip |-> ip, iobj |-> iobj, ub |-> "none", halted |-> FALSE,
             mode |-> m]

\* any access to obj_ of an IntrusivePtr object
TouchIntrusive(I, s) ==
  IF I.halted \/ I.ip[s].alive THEN I ELSE Ub(I, "pointer_use_after_destroy")

\* any access to counter_ of a payload: the RefCounted base is there until the
\* destructor of the payload has finished
TouchCounter(I, o) ==
  IF I.halted \/ I.iobj[o].st \in {"alive", "destroying"} THEN I
  ELSE Ub(I, "object_use_after_destroy")

RECURSIVE IntrusivePtr_Reset(_, _)

\* ~IntrusivePtr: Reset(), then the object is gone
IntrusivePtr_Dtor(I, s) ==
  Then(IntrusivePtr_Reset(I, s), LAMBDA R : [R EXCEPT !.ip[s].alive = FALSE])

\* Deleter::Destroy starts on object o
Destroy_Enter(I, o) ==
  IF I.iobj[o].st = "alive"
  THEN [I EXCEPT !.iobj[o].destroys = @ + 1]
  ELSE Ub([I EXCEPT !.iobj[o].destroys = @ + 1], "object_double_destroy")

\* DefaultDelete::Destroy: delete object, which runs ~INode and with it
\* ~IntrusivePtr of next
Destroy(I, o) ==
  Then(I, LAMBDA G :
    Then(Destroy_Enter(G, o), LAMBDA I1 :
      Then(IntrusivePtr_Dtor([I1 EXCEPT !.iobj[o].st = "destroying"],
                             INextSlot(o)),
           LAMBDA I3 : [I3 EXCEPT !.iobj[o].st = "destroyed"])))

\* RefCounted::IncRef
RefCounted_IncRef(I, o) ==
  Then(TouchCounter(I, o), LAMBDA T : [T EXCEPT !.iobj[o].count_ = @ + 1])

\* RefCounted::DecRef
RefCounted_DecRef(I, o) ==
  Then(TouchCounter(I, o), LAMBDA T :
    Then([T EXCEPT !.iobj[o].count_ = @ - 1], LAMBDA D :
      IF D.iobj[o].count_ = 0 THEN Destroy(D, o) ELSE D))

\* an operator= that copies the counter, as the implicit one would
RefCounted_Assign_CopiesCounter(I, a, b) ==
  Then(TouchCounter(TouchCounter(I, a), b), LAMBDA T :
       [T EXCEPT !.iobj[a].count_ = T.iobj[b].count_])

\* RefCounted::operator=(const RefCounted& other): returns *this, counter_
\* of neither object is read or written
RefCounted_Assign(I, a, b) ==
  Then(TouchCounter(TouchCounter(I, a), b), LAMBDA T : T)

\* RefCounted::RefCount
RefCounted_RefCount(o) == iobj[o].count_

\* IntrusivePtr::Reset(): obj_ is written after DecRef() has returned
IntrusivePtr_Reset(I, s) ==
  Then(TouchIntrusive(I, s), LAMBDA T :
    IF T.ip[s].obj_ = NullPtr THEN T
    ELSE Then(TouchIntrusive(RefCounted_DecRef(T, T.ip[s].obj_), s),
              LAMBDA R : [R EXCEPT !.ip[s].obj_ = NullPtr]))

\* IntrusivePtr::Reset(T* ptr)
IntrusivePtr_ResetTo(I, s, ptr) ==
  Then(TouchIntrusive(IntrusivePtr_Reset(I, s), s), LAMBDA R :
    IF ptr = NullPtr THEN [R EXCEPT !.ip[s].obj_ = NullPtr]
    ELSE RefCounted_IncRef([R EXCEPT !.ip[s].obj_ = ptr], ptr))

\* the member initialiser obj_ = nullptr
IntrusivePtr_Init(I, d) ==
  [I EXCEPT !.ip[d] = [alive |-> TRUE, obj_ |-> NullPtr]]

\* IntrusivePtr(T* ptr)
IntrusivePtr_FromRaw(I, d, ptr) ==
  IntrusivePtr_ResetTo(IntrusivePtr_Init(I, d), d, ptr)

\* IntrusivePtr(const IntrusivePtr& other)
IntrusivePtr_CopyCtor(I, d, s) ==
  IntrusivePtr_ResetTo(IntrusivePtr_Init(I, d), d, I.ip[s].obj_)

IntrusivePtr_Swap(I, a, b) ==
  Then(TouchIntrusive(TouchIntrusive(I, a), b), LAMBDA T :
       [T EXCEPT !.ip[a].obj_ = T.ip[b].obj_, !.ip[b].obj_ = T.ip[a].obj_])

\* IntrusivePtr(IntrusivePtr&& other)
IntrusivePtr_MoveCtor(I, d, s) ==
  IntrusivePtr_Swap(IntrusivePtr_Init(I, d), d, s)

\* IntrusivePtr(IntrusivePtr<Y>&& other)
IntrusivePtr_ConvMoveCtor(I, d, s) ==
  [I EXCEPT !.ip[d] = [alive |-> TRUE, obj_ |-> I.ip[s].obj_],
            !.ip[s].obj_ = NullPtr]

\* operator=(const IntrusivePtr& other): the argument other.obj_ is read
\* before Reset(T*) runs
IntrusivePtr_CopyAssign(I, d, s) ==
  IF d = s THEN I ELSE IntrusivePtr_ResetTo(I, d, I.ip[s].obj_)

\* operator=(IntrusivePtr&& other)
IntrusivePtr_MoveAssign(I, d, s) ==
  IF d = s THEN I ELSE IntrusivePtr_Swap(IntrusivePtr_Reset(I, d), d, s)

\* IntrusivePtr::UseCount, on the pointers ipv over the objects iobjv
IntrusivePtr_UseCount(ipv, iobjv, s) ==
  IF ipv[s].obj_ # NullPtr THEN iobjv[ipv[s].obj_].count_ ELSE 0

IntrusivePtr_Get(s) == ip[s].obj_

\* new INode: counter 0, member next default-constructed
NewINode(I, o) ==
  [I EXCEPT !.iobj[o] = [st |-> "alive", count_ |-> 0, destroys |-> 0],
            !.ip[INextSlot(o)] = [alive |-> TRUE, obj_ |-> NullPtr]]

\* MakeIntrusive<T>(args...)
MakeIntrusive(I, d, o) == IntrusivePtr_FromRaw(NewINode(I, o), d, o)

\* ------------------------------------------------------ actions of Part III
IHasFresh == \E o \in IObjs : iobj[o].st = "none"

IFresh == CHOOSE o \in IObjs :
            iobj[o].st = "none" /\ \A c \in IObjs : c < o => iobj[c].st # "none"

ICommit(I, l) ==
  /\ ub = "none"
  /\ ops < MaxOps
  /\ ip' = I.ip
  /\ iobj' = I.iobj
  /\ ub' = I.ub
  /\ last' = l
  /\ ops' = ops + 1
  /\ UNCHANGED <<blk, obj, sp, wp, up, uobj, eblk, esp, ewp, cp>>

LiveIntrusive == {s \in IntrusiveSlots : ip[s].alive}
FreeIntrusive ==
  {d \in RootIntrusive :
     ~ip[d].alive /\ \A e \in RootIntrusive : e < d => ip[e].alive}

\* raw handles the client can pass: what Get() of a live pointer returns
HeldRaw == {ip[s].obj_ : s \in LiveIntrusive} \ {NullPtr}

IntrusiveDefault ==
  \E d \in FreeIntrusive :
    ICommit(IntrusivePtr_Init(IHeap("crash"), d),
            Op("IntrusiveDefault", d, 0, 0, "none"))

IntrusiveMake ==
  /\ IHasFresh
  /\ \E d \in FreeIntrusive :
       ICommit(MakeIntrusive(IHeap("crash"), d, IFresh),
               Op("IntrusiveMake", d, 0, IFresh, "none"))

\* IntrusivePtr<T> q(p.Get())
IntrusiveFromRaw ==
  \E d \in FreeIntrusive, o \in HeldRaw :
    ICommit(IntrusivePtr_FromRaw(IHeap("crash"), d, o),
            Op("IntrusiveFromRaw", d, 0, o, "none"))

IntrusiveCopy ==
  \E d \in FreeIntrusive, s \in LiveIntrusive :
    ICommit(IntrusivePtr_CopyCtor(IHeap("crash"), d, s),
            Op("IntrusiveCopy", d, s, 0, "none"))

IntrusiveMove ==
  \E d \in FreeIntrusive, s \in LiveIntrusive :
    ICommit(IntrusivePtr_MoveCtor(IHeap("crash"), d, s),
            Op("IntrusiveMove", d, s, 0, "none"))

IntrusiveConvMove ==
  \E d \in FreeIntrusive, s \in LiveIntrusive :
    ICommit(IntrusivePtr_ConvMoveCtor(IHeap("crash"), d, s),
            Op("IntrusiveConvMove", d, s, 0, "none"))

IntrusiveCopyAssign ==
  \E d \in LiveIntrusive, s \in LiveIntrusive, m \in UBOutcomes :
    ICommit(IntrusivePtr_CopyAssign(IHeap(m), d, s),
            Op("IntrusiveCopyAssign", d, s, 0, "none"))

IntrusiveMoveAssign ==
  \E d \in LiveIntrusive, s \in LiveIntrusive, m \in UBOutcomes :
    ICommit(IntrusivePtr_MoveAssign(IHeap(m), d, s),
            Op("IntrusiveMoveAssign", d, s, 0, "none"))

IntrusiveReset ==
  \E s \in LiveIntrusive, m \in UBOutcomes :
    ICommit(IntrusivePtr_Reset(IHeap(m), s),
            Op("IntrusiveReset", s, 0, 0, "none"))

\* p.Reset(ptr) with a new object, or with what Get() of a live pointer returns
IntrusiveResetTo ==
  \E s \in LiveIntrusive, m \in UBOutcomes :
    \/ \E o \in HeldRaw :
         ICommit(IntrusivePtr_ResetTo(IHeap(m), s, o),
                 Op("IntrusiveResetTo", s, 0, o, "none"))
    \/ /\ IHasFresh
       /\ ICommit(IntrusivePtr_ResetTo(NewINode(IHeap(m), IFresh), s, IFresh),
                  Op("IntrusiveResetTo", s, 0, IFresh, "none"))

\* static_cast<RefCounted&>(*d) = *s  on the payloads of two pointers: the
\* base-class part of a payload assignment
IntrusivePayloadAssign ==
  \E d \in LiveIntrusive, s \in LiveIntrusive :
    /\ ip[d].obj_ # NullPtr
    /\ ip[s].obj_ # NullPtr
    /\ ICommit(RefCounted_Assign(IHeap("crash"), ip[d].obj_, ip[s].obj_),
               Op("IntrusivePayloadAssign", d, s, 0, "none"))

IntrusiveSwap ==
  \E a \in LiveIntrusive, b \in LiveIntrusive :
    /\ a < b
    /\ ICommit(IntrusivePtr_Swap(IHeap("crash"), a, b),
               Op("IntrusiveSwap", a, b, 0, "none"))

IntrusiveDestroy ==
  \E s \in LiveIntrusive \cap RootIntrusive, m \in UBOutcomes :
    ICommit(IntrusivePtr_Dtor(IHeap(m), s),
            Op("IntrusiveDestroy", s, 0, 0, "none"))

\* =========================================================================
\* Part IV : the self-referencing variant (src/shared-from-this/weak.h).
\* Its shared.h (control blocks, SharedPtr, the bodies of
\* EnableSharedFromThis) is not among the sources: those operations follow
\* sections 4.2 - 4.4 of the specification.  The payload type is
\*     struct ENode : EnableSharedFromThis<ENode> {};
\* whose base holds the back-reference  WeakPtr<ENode> weak_this_.
\* =========================================================================
EBlocks == 1..MaxBlocks

\* The client declares the locals  SharedPtr<ENode> p, q;  WeakPtr<ENode> v, w;
ERootShared == {1, 2}
ERootWeak == {1, 2}
EWeakSlots == ERootWeak \cup {Cardinality(ERootWeak) + b : b \in EBlocks}

\* weak_this_ of the payload of block b
EThisSlot(b) == Cardinality(ERootWeak) + b

NoEBlock ==
  [st |-> "none", kind |-> "none", shared_counter_ |-> 0, weak_counter_ |-> 0,
   data |-> "none", dtors |-> 0, frees |-> 0]

NoEShared == [alive |-> FALSE, obj_ |-> NullPtr, block_ |-> NullPtr]

NoEWeak == [alive |-> FALSE, obj_ |-> NullPtr, block_ |-> NullPtr,
            can_i_delete_block_ |-> TRUE]

EHeap(m) == [eblk |-> eblk, esp |-> esp, ewp |-> ewp, ub |-> "none",
             halted |-> FALSE, mode |-> m]

\* any access to the fields of block b
ETouch(E, b) ==
  IF E.halted \/ E.eblk[b].st = "live" THEN E
  ELSE Ub(E, "block_use_after_free")

ETouchWeak(E, w) ==
  IF E.halted \/ E.ewp[w].alive THEN E ELSE Ub(E, "pointer_use_after_destroy")

\* block_->IncrementWeak()
EIncrementWeak(E, b) ==
  Then(ETouch(E, b), LAMBDA T : [T EXCEPT !.eblk[b].weak_counter_ = @ + 1])

\* block_->DecrementWeak()
EDecrementWeak(E, b) ==
  Then(ETouch(E, b), LAMBDA T : [T EXCEPT !.eblk[b].weak_counter_ = @ - 1])

\* block_->CanBlockBeDeleted()
ECanBlockBeDeleted(E, b) ==
  E.eblk[b].shared_counter_ = 0 /\ E.eblk[b].weak_counter_ = 0

\* delete block_
EDeleteBlock(E, b) ==
  IF E.eblk[b].st = "live"
  THEN [E EXCEPT !.eblk[b].st = "freed", !.eblk[b].frees = @ + 1]
  ELSE Ub([E EXCEPT !.eblk[b].frees = @ + 1], "block_double_free")

\* the member initialisers of WeakPtr
EsftWeakPtr_Init(E, d, o, b, can) ==
  [E EXCEPT !.ewp[d] = [alive |-> TRUE, obj_ |-> o, block_ |-> b,
                        can_i_delete_block_ |-> can]]

\* WeakPtr::Reset
EsftWeakPtr_Reset(E, w) ==
  Then(ETouchWeak(E, w), LAMBDA T :
    IF T.ewp[w].block_ = NullPtr THEN [T EXCEPT !.ewp[w].obj_ = NullPtr]
    ELSE
      Then(EDecrementWeak([T EXCEPT !.ewp[w].obj_ = NullPtr], T.ewp[w].block_),
           LAMBDA D :
        Then(IF /\ ECanBlockBeDeleted(D, D.ewp[w].block_)
                /\ D.ewp[w].can_i_delete_block_
             THEN EDeleteBlock(D, D.ewp[w].block_)
             ELSE D,
             LAMBDA F : [F EXCEPT !.ewp[w].block_ = NullPtr])))

\* ~WeakPtr
EsftWeakPtr_Dtor(E, w) ==
  Then(EsftWeakPtr_Reset(E, w), LAMBDA R : [R EXCEPT !.ewp[w].alive = FALSE])

\* WeakPtr::Swap
EsftWeakPtr_Swap(E, a, b) ==
  Then(ETouchWeak(ETouchWeak(E, a), b), LAMBDA T :
    [T EXCEPT !.ewp[a] = [T.ewp[b] EXCEPT !.alive = TRUE],
              !.ewp[b] = [T.ewp[a] EXCEPT !.alive = TRUE]])

\* WeakPtr(const WeakPtr& other): can_i_delete_block_ keeps its initialiser
EsftWeakPtr_CopyCtor(E, d, s) ==
  Then(EsftWeakPtr_Init(E, d, E.ewp[s].obj_, E.ewp[s].block_, TRUE), LAMBDA T :
    IF T.ewp[s].block_ # NullPtr THEN EIncrementWeak(T, T.ewp[d].block_) ELSE T)

\* WeakPtr(WeakPtr&& other)
EsftWeakPtr_MoveCtor(E, d, s) ==
  EsftWeakPtr_Swap(EsftWeakPtr_Init(E, d, NullPtr, NullPtr, TRUE), d, s)

\* WeakPtr(const SharedPtr<T>& other)
EsftWeakPtr_FromShared(E, d, s) ==
  Then(EsftWeakPtr_Init(E, d, E.esp[s].obj_, E.esp[s].block_, TRUE), LAMBDA T :
    IF T.ewp[d].block_ # NullPtr THEN EIncrementWeak(T, T.ewp[d].block_) ELSE T)

\* a variant of WeakPtr(T* obj, BaseControlBlock* block) that stays empty
EsftWeakPtr_Ctor_Empty(E, d, o, b) ==
  EsftWeakPtr_Init(E, d, NullPtr, NullPtr, FALSE)

\* WeakPtr(T* obj, BaseControlBlock* block)
EsftWeakPtr_Ctor(E, d, o, b) ==
  Then(EsftWeakPtr_Init(E, d, o, b, FALSE), LAMBDA T :
    IF T.ewp[d].block_ # NullPtr THEN EIncrementWeak(T, T.ewp[d].block_) ELSE T)

\* operator=(const WeakPtr& other)
EsftWeakPtr_CopyAssign(E, d, s) ==
  IF d = s THEN E
  ELSE
    Then(ETouchWeak(ETouchWeak(EsftWeakPtr_Reset(E, d), s), d), LAMBDA R :
      Then([R EXCEPT !.ewp[d].obj_ = R.ewp[s].obj_,
                     !.ewp[d].block_ = R.ewp[s].block_,
                     !.ewp[d].can_i_delete_block_ =
                        R.ewp[s].can_i_delete_block_],
           LAMBDA A :
        IF A.ewp[d].block_ # NullPtr THEN EIncrementWeak(A, A.ewp[d].block_)
        ELSE A))

\* operator=(WeakPtr&& other): no test for self-assignment
EsftWeakPtr_MoveAssign(E, d, s) ==
  EsftWeakPtr_Swap(EsftWeakPtr_Reset(E, d), d, s)

\* WeakPtr::UseCount, on the pointers wv over the blocks bv
EsftWeakPtr_UseCount(wv, bv, w) ==
  IF wv[w].block_ # NullPtr THEN bv[wv[w].block_].shared_counter_ ELSE 0

\* WeakPtr::Expired
EsftWeakPtr_Expired(wv, bv, w) ==
  IF wv[w].block_ # NullPtr THEN bv[wv[w].block_].shared_counter_ = 0 ELSE TRUE

\* --- the operations of the missing shared.h, after the specification -----
\* destroy-payload: the payload's destructor destroys its weak_this_
EDestroyPayload(E, b) ==
  Then([E EXCEPT !.eblk[b].dtors = @ + 1, !.eblk[b].data = "destroying"],
       LAMBDA D :
    Then(EsftWeakPtr_Dtor(D, EThisSlot(b)),
         LAMBDA W : [W EXCEPT !.eblk[b].data = "destroyed"]))

\* destruction or reset of a SharedPtr (section 4.2)
EsftSharedPtr_Reset(E, s) ==
  IF E.esp[s].block_ = NullPtr THEN [E EXCEPT !.esp[s].obj_ = NullPtr]
  ELSE
    Then(ETouch(E, E.esp[s].block_), LAMBDA T :
      Then([T EXCEPT !.eblk[T.esp[s].block_].shared_counter_ = @ - 1],
           LAMBDA D :
        Then(IF D.eblk[D.esp[s].block_].shared_counter_ = 0
             THEN EDestroyPayload(D, D.esp[s].block_) ELSE D,
             LAMBDA P :
          Then(IF ECanBlockBeDeleted(P, P.esp[s].block_)
               THEN EDeleteBlock(P, P.esp[s].block_) ELSE P,
               LAMBDA F : [F EXCEPT !.esp[s].obj_ = NullPtr,
                                    !.esp[s].block_ = NullPtr]))))

EsftSharedPtr_Dtor(E, s) ==
  Then(EsftSharedPtr_Reset(E, s), LAMBDA R : [R EXCEPT !.esp[s].alive = FALSE])

\* copy of a SharedPtr (section 4.2)
EsftSharedPtr_CopyCtor(E, d, s) ==
  Then([E EXCEPT !.esp[d] = [alive |-> TRUE, obj_ |-> E.esp[s].obj_,
                             block_ |-> E.esp[s].block_]],
       LAMBDA T :
    IF T.esp[d].block_ # NullPtr
    THEN [T EXCEPT !.eblk[T.esp[d].block_].shared_counter_ = @ + 1]
    ELSE T)

\* promotion from weak (section 4.2): succeeds when the block exists and its
\* strong count is not 0, yields an empty pointer otherwise (lock mode)
EsftSharedPtr_FromWeak(E, d, w) ==
  IF E.ewp[w].block_ # NullPtr
       /\ E.eblk[E.ewp[w].block_].shared_counter_ # 0
  THEN [E EXCEPT !.esp[d] = [alive |-> TRUE, obj_ |-> E.ewp[w].obj_,
                             block_ |-> E.ewp[w].block_],
                 !.eblk[E.ewp[w].block_].shared_counter_ = @ + 1]
  ELSE [E EXCEPT !.esp[d] = [alive |-> TRUE, obj_ |-> NullPtr,
                             block_ |-> NullPtr]]

\* the wrapping operation (section 4.4): a block of the given kind for a new
\* payload, strong count 1, and the back-reference threaded into the payload
EsftSharedPtr_Wrap(E, d, b, k) ==
  EsftWeakPtr_Ctor(
    [E EXCEPT !.eblk[b] = [st |-> "live", kind |-> k, shared_counter_ |-> 1,
                           weak_counter_ |-> 0, data |-> "alive",
                           dtors |-> 0, frees |-> 0],
              !.esp[d] = [alive |-> TRUE, obj_ |-> b, block_ |-> b]],
    EThisSlot(b), b, b)

\* SharedFromThis (section 4.4) promotes the stored weak reference
SharedFromThis(E, d, b) == EsftSharedPtr_FromWeak(E, d, EThisSlot(b))

\* WeakFromThis (section 4.4) hands out a copy of the stored weak reference
WeakFromThis(E, d, b) == EsftWeakPtr_CopyCtor(E, d, EThisSlot(b))

\* ------------------------------------------------------- actions of Part IV
EHasFresh == \E b \in EBlocks : eblk[b].st = "none"

EFresh == CHOOSE b \in EBlocks :
            eblk[b].st = "none" /\ \A c \in EBlocks : c < b => eblk[c].st # "none"

ECommit(E, l) ==
  /\ ub = "none"
  /\ ops < MaxOps
  /\ eblk' = E.eblk
  /\ esp' = E.esp
  /\ ewp' = E.ewp
  /\ ub' = E.ub
  /\ last' = l
  /\ ops' = ops + 1
  /\ UNCHANGED <<blk, obj, sp, wp, up, uobj, ip, iobj, cp>>

ELiveShared == {s \in ERootShared : esp[s].alive}
ELiveWeak == {w \in EWeakSlots : ewp[w].alive}
EFreeShared ==
  {d \in ERootShared :
     ~esp[d].alive /\ \A e \in ERootShared : e < d => esp[e].alive}
EFreeWeak ==
  {d \in ERootWeak : ~ewp[d].alive /\ \A e \in ERootWeak : e < d => ewp[e].alive}

\* payloads a member function can be called on
EAlivePayloads == {b \in EBlocks : eblk[b].st = "live" /\ eblk[b].data = "alive"}

EsftFromRaw ==
  /\ EHasFresh
  /\ \E d \in EFreeShared :
       ECommit(EsftSharedPtr_Wrap(EHeap("crash"), d, EFresh, "ptr"),
               Op("EsftFromRaw", d, 0, EFresh, "none"))

EsftMakeShared ==
  /\ EHasFresh
  /\ \E d \in EFreeShared :
       ECommit(EsftSharedPtr_Wrap(EHeap("crash"), d, EFresh, "make"),
               Op("EsftMakeShared", d, 0, EFresh, "none"))

EsftSharedCopy ==
  \E d \in EFreeShared, s \in ELiveShared :
    ECommit(EsftSharedPtr_CopyCtor(EHeap("crash"), d, s),
            Op("EsftSharedCopy", d, s, 0, "none"))

EsftSharedReset ==
  \E s \in ELiveShared, m \in UBOutcomes :
    ECommit(EsftSharedPtr_Reset(EHeap(m), s),
            Op("EsftSharedReset", s, 0, 0, "none"))

EsftSharedDestroy ==
  \E s \in ELiveShared, m \in UBOutcomes :
    ECommit(EsftSharedPtr_Dtor(EHeap(m), s),
            Op("EsftSharedDestroy", s, 0, 0, "none"))

EsftSharedFromThis ==
  \E d \in EFreeShared, b \in EAlivePayloads :
    ECommit(SharedFromThis(EHeap("crash"), d, b),
            Op("EsftSharedFromThis", d, EThisSlot(b), b, "none"))

EsftWeakFromThis ==
  \E d \in EFreeWeak, b \in EAlivePayloads :
    ECommit(WeakFromThis(EHeap("crash"), d, b),
            Op("EsftWeakFromThis", d, EThisSlot(b), b, "none"))

EsftWeakDefault ==
  \E d \in EFreeWeak :
    ECommit(EsftWeakPtr_Init(EHeap("crash"), d, NullPtr, NullPtr, TRUE),
            Op("EsftWeakDefault", d, 0, 0, "none"))

EsftWeakCopy ==
  \E d \in EFreeWeak, s \in ELiveWeak, m \in UBOutcomes :
    ECommit(EsftWeakPtr_CopyCtor(EHeap(m), d, s),
            Op("EsftWeakCopy", d, s, 0, "none"))

EsftWeakMove ==
  \E d \in EFreeWeak, s \in ELiveWeak \cap ERootWeak :
    ECommit(EsftWeakPtr_MoveCtor(EHeap("crash"), d, s),
            Op("EsftWeakMove", d, s, 0, "none"))

EsftWeakFromShared ==
  \E d \in EFreeWeak, s \in ELiveShared :
    ECommit(EsftWeakPtr_FromShared(EHeap("crash"), d, s),
            Op("EsftWeakFromShared", d, s, 0, "none"))

\* the source may be the back-reference of a live payload
EsftWeakCopyAssign ==
  \E d \in ELiveWeak \cap ERootWeak, s \in ELiveWeak, m \in UBOutcomes :
    ECommit(EsftWeakPtr_CopyAssign(EHeap(m), d, s),
            Op("EsftWeakCopyAssign", d, s, 0, "none"))

EsftWeakMoveAssign ==
  \E d \in ELiveWeak \cap ERootWeak, s \in ELiveWeak \cap ERootWeak,
     m \in UBOutcomes :
    ECommit(EsftWeakPtr_MoveAssign(EHeap(m), d, s),
            Op("EsftWeakMoveAssign", d, s, 0, "none"))

EsftWeakReset ==
  \E w \in ELiveWeak \cap ERootWeak, m \in UBOutcomes :
    ECommit(EsftWeakPtr_Reset(EHeap(m), w),
            Op("EsftWeakReset", w, 0, 0, "none"))

EsftWeakDestroy ==
  \E w \in ELiveWeak \cap ERootWeak, m \in UBOutcomes :
    ECommit(EsftWeakPtr_Dtor(EHeap(m), w),
            Op("EsftWeakDestroy", w, 0, 0, "none"))

EsftWeakSwap ==
  \E a \in ELiveWeak \cap ERootWeak, b \in ELiveWeak \cap ERootWeak :
    /\ a < b
    /\ ECommit(EsftWeakPtr_Swap(EHeap("crash"), a, b),
               Op("EsftWeakSwap", a, b, 0, "none"))

\* w.Lock()
EsftWeakLock ==
  \E d \in EFreeShared, w \in ELiveWeak \cap ERootWeak :
    ECommit(EsftSharedPtr_FromWeak(EHeap("crash"), d, w),
            Op("EsftWeakLock", d, w, 0, "none"))

\* =========================================================================
\* Part V : CompressedPair<F, S> (src/unique/compressed_pair.h).
\* A slot type is described by the traits CaseSwitch looks at.
\* =========================================================================
\* cls: a class type; empty: std::is_empty_v; final: std::is_final_v
TypeDescs ==
  {d \in [cls : BOOLEAN, empty : BOOLEAN, final : BOOLEAN] :
     ~d.cls => (~d.empty /\ ~d.final)}

\* how the two slot types are related
Relations ==
  {"unrelated", "same", "first_base_of_second", "second_base_of_first"}

\* the pairs of types C++ admits: a base is a class that is not final, a
\* class derived from a class with state is not empty
ValidPair(F, S, r) ==
  /\ r = "same" => F = S
  /\ r = "first_base_of_second" =>
       (F.cls /\ S.cls /\ ~F.final /\ (S.empty => F.empty))
  /\ r = "second_base_of_first" =>
       (F.cls /\ S.cls /\ ~S.final /\ (F.empty => S.empty))

\* std::is_base_of_v<S, F> || std::is_base_of_v<F, S>
IsBaseOfEither(F, S, r) ==
  \/ r = "same" /\ F.cls
  \/ r \in {"first_base_of_second", "second_base_of_first"}

\* a variant of CaseSwitch with the cases 2 and 3 exchanged
CaseSwitch_Exchanged(F, S, r) ==
  LET first_empty == F.empty /\ ~F.final
      second_empty == S.empty /\ ~S.final
  IN IF ~first_empty /\ ~second_empty THEN 1
     ELSE IF ~first_empty THEN 3
     ELSE IF ~second_empty THEN 2
     ELSE IF IsBaseOfEither(F, S, r) THEN 1
     ELSE 4

\* CaseSwitch<F, S>()
CaseSwitch(F, S, r) ==
  LET first_empty == F.empty /\ ~F.final
      second_empty == S.empty /\ ~S.final
  IN IF ~first_empty /\ ~second_empty THEN 1
     ELSE IF ~first_empty THEN 2
     ELSE IF ~second_empty THEN 3
     ELSE IF IsBaseOfEither(F, S, r) THEN 1
     ELSE 4

\* the data members of the specialisation k of CompressedPair
PairMembers(k) ==
  CASE k = 1 -> {"first_", "second_"}
    [] k = 2 -> {"first_"}
    [] k = 3 -> {"second_"}
    [] k = 4 -> {}

\* the base classes of the specialisation k of CompressedPair
PairBases(k) ==
  CASE k = 1 -> {}
    [] k = 2 -> {"S"}
    [] k = 3 -> {"F"}
    [] k = 4 -> {"S", "F"}

\* the values an object of a type can take: an empty type has one
PairValues(T) == IF T.empty THEN {0} ELSE {0, 1}

\* a declared, not yet constructed CompressedPair<F, S>
NoPair(F, S, r) ==
  [F |-> F, S |-> S, rel |-> r, made |-> FALSE, members |-> {}, bases |-> {},
   first_ |-> 0, second_ |-> 0]

\* CompressedPair(T1&& first, T2&& second): a slot that is a base is
\* default-constructed
CompressedPair_Ctor(c, a, b) ==
  LET k == CaseSwitch(c.F, c.S, c.rel) IN
  [c EXCEPT !.made = TRUE, !.members = PairMembers(k), !.bases = PairBases(k),
            !.first_ = IF "first_" \in PairMembers(k) THEN a ELSE 0,
            !.second_ = IF "second_" \in PairMembers(k) THEN b ELSE 0]

\* CompressedPair(): the members are value-initialised
CompressedPair_Default(c) == CompressedPair_Ctor(c, 0, 0)

\* GetFirst() = v
CompressedPair_SetFirst(c, v) ==
  IF "first_" \in c.members THEN [c EXCEPT !.first_ = v] ELSE c

\* GetSecond() = v
CompressedPair_SetSecond(c, v) ==
  IF "second_" \in c.members THEN [c EXCEPT !.second_ = v] ELSE c

\* ------------------------------------------------------- actions of Part V
PCommit(c, l) ==
  /\ ub = "none"
  /\ ops < MaxOps
  /\ cp' = c
  /\ last' = l
  /\ ops' = ops + 1
  /\ UNCHANGED <<blk, obj, sp, wp, up, uobj, ip, iobj, eblk, esp, ewp, ub>>

\* the specialisation 4 has no default constructor
PairDefault ==
  /\ ~cp.made
  /\ CaseSwitch(cp.F, cp.S, cp.rel) # 4
  /\ PCommit(CompressedPair_Default(cp), Op("PairDefault", 0, 0, 0, "none"))

PairConstruct ==
  /\ ~cp.made
  /\ \E a \in PairValues(cp.F), b \in PairValues(cp.S) :
       PCommit(CompressedPair_Ctor(cp, a, b),
               Op("PairConstruct", 0, a, b, "none"))

PairSetFirst ==
  /\ cp.made
  /\ \E v \in PairValues(cp.F) :
       PCommit(CompressedPair_SetFirst(cp, v),
               Op("PairSetFirst", 0, 0, v, "none"))

PairSetSecond ==
  /\ cp.made
  /\ \E v \in PairValues(cp.S) :
       PCommit(CompressedPair_SetSecond(cp, v),
               Op("PairSetSecond", 0, 0, v, "none"))

\* the pointers of the parts I - IV before the first call
InitPointers ==
  /\ blk = [b \in Blocks |-> NoBlock]
  /\ obj = [b \in Blocks |-> NoPayload]
  /\ sp = [s \in SharedSlots |-> EmptyPtr]
  /\ wp = [w \in WeakSlots |-> EmptyPtr]
  /\ up = [s \in UniqueSlots |-> NoUnique]
  /\ uobj = [o \in UObjs |-> NoUObj]
  /\ ip = [s \in IntrusiveSlots |-> NoIntrusive]
  /\ iobj = [o \in IObjs |-> NoIObj]
  /\ eblk = [b \in EBlocks |-> NoEBlock]
  /\ esp = [s \in ERootShared |-> NoEShared]
  /\ ewp = [w \in EWeakSlots |-> NoEWeak]
  /\ ub = "none"
  /\ last = Op("init", 0, 0, 0, "none")
  /\ ops = 0

\* the pair UniquePtr<T> holds: CompressedPair<T*, DefaultDeleter<T>>
Init ==
  /\ InitPointers
  /\ cp = NoPair([cls |-> FALSE, empty |-> FALSE, final |-> FALSE],
                 [cls |-> TRUE, empty |-> TRUE, final |-> FALSE], "unrelated")

\* CompressedPair<F, S> for every pair of slot types
InitPair ==
  /\ InitPointers
  /\ cp \in {NoPair(F, S, r) : <<F, S, r>> \in
               {x \in TypeDescs \X TypeDescs \X Relations :
                  ValidPair(x[1], x[2], x[3])}}

Next ==
  \/ SharedDefault
  \/ SharedFromRaw
  \/ MakeSharedOp
  \/ SharedCopy
  \/ SharedMove
  \/ SharedAlias
  \/ SharedPromote
  \/ WeakLock
  \/ SharedCopyAssign
  \/ SharedMoveAssign
  \/ SharedReset
  \/ SharedDestroy
  \/ SharedSwap
  \/ WeakDefault
  \/ WeakCopy
  \/ WeakMove
  \/ WeakFromShared
  \/ WeakCopyAssign
  \/ WeakMoveAssign
  \/ WeakReset
  \/ WeakDestroy
  \/ WeakSwap

Spec == Init /\ [][Next]_vars

NextUnique ==
  \/ UniqueDefault
  \/ UniqueFromRaw
  \/ UniqueMove
  \/ UniqueConvMove
  \/ UniqueMoveAssign
  \/ UniqueNullAssign
  \/ UniqueConvMoveAssign
  \/ UniqueRelease
  \/ UniqueReset
  \/ UniqueSwap
  \/ UniqueDestroy

SpecUnique == Init /\ [][NextUnique]_vars

NextIntrusive ==
  \/ IntrusiveDefault
  \/ IntrusiveMake
  \/ IntrusiveFromRaw
  \/ IntrusiveCopy
  \/ IntrusiveMove
  \/ IntrusiveConvMove
  \/ IntrusiveCopyAssign
  \/ IntrusiveMoveAssign
  \/ IntrusiveReset
  \/ IntrusiveResetTo
  \/ IntrusivePayloadAssign
  \/ IntrusiveSwap
  \/ IntrusiveDestroy

SpecIntrusive == Init /\ [][NextIntrusive]_vars

NextEsft ==
  \/ EsftFromRaw
  \/ EsftMakeShared
  \/ EsftSharedCopy
  \/ EsftSharedReset
  \/ EsftSharedDestroy
  \/ EsftSharedFromThis
  \/ EsftWeakFromThis
  \/ EsftWeakDefault
  \/ EsftWeakCopy
  \/ EsftWeakMove
  \/ EsftWeakFromShared
  \/ EsftWeakCopyAssign
  \/ EsftWeakMoveAssign
  \/ EsftWeakReset
  \/ EsftWeakDestroy
  \/ EsftWeakSwap
  \/ EsftWeakLock

SpecEsft == Init /\ [][NextEsft]_vars

NextPair ==
  \/ PairDefault
  \/ PairConstruct
  \/ PairSetFirst
  \/ PairSetSecond

SpecPair == InitPair /\ [][NextPair]_vars

\* ================================================================== claims
\* pointers attached to block b
SharedOn(b) == {s \in SharedSlots : sp[s].alive /\ sp[s].block_ = b}
WeakOn(b) == {w \in WeakSlots : wp[w].alive /\ wp[w].block_ = b}

\* C1: every payload is destroyed at most once (the destructor of a payload
\* never runs a second time), whatever pointers its own destructor releases.
C1_PayloadDestroyedAtMostOnce ==
  \A b \in Blocks : obj[b].dtors <= 1

\* C2: a control block is freed at most once and is never read or written
\* after it has been freed, also when a payload destructor releases pointers
\* to the block.
C2_BlockFreedOnceNoUseAfterFree ==
  \A b \in Blocks : blk[b].frees <= 1 /\ ~blk[b].uaf

\* UseCount() of every SharedPtr equals the number of live SharedPtr attached
\* to its block, and is 0 for an empty one, in every state reached without an
\* undefined operation
C3_CountIsCopies ==
  ub = "none" =>
    \A s \in SharedSlots :
      sp[s].alive =>
        UseCount(s) = IF sp[s].block_ = NullPtr THEN 0
                      ELSE Cardinality(SharedOn(sp[s].block_))

\* a copy raises the count of the block by exactly 1, a
\* Reset()/destruction of a copy lowers it by exactly 1 (seen by every other
\* copy), a move construction changes no count.
C3_Step ==
  /\ (last'.op = "SharedCopy" /\ sp[last'.src].block_ # NullPtr) =>
       /\ UseCountAfter(last'.dst) = UseCount(last'.src) + 1
       /\ \A s \in SharedOn(sp[last'.src].block_) :
            UseCountAfter(s) = UseCount(s) + 1
  /\ (last'.op \in {"SharedReset", "SharedDestroy"}
        /\ sp[last'.dst].block_ # NullPtr) =>
       \A s \in SharedOn(sp[last'.dst].block_) \ {last'.dst} :
         UseCountAfter(s) = UseCount(s) - 1
  /\ last'.op = "SharedMove" =>
       /\ blk' = blk
       /\ UseCountAfter(last'.dst) = UseCount(last'.src)
  /\ last'.op = "SharedDefault" => UseCountAfter(last'.dst) = 0

\* C3: after N-1 copies UseCount() is N on every copy; copy +1, Reset or
\* destruction -1, move construction 0, empty pointer 0.
C3_UseCount == []C3_CountIsCopies /\ [][C3_Step]_vars

\* C3 witness: a copy has just been made and three copies report UseCount 3.
C3_Witness ==
  /\ last.op = "SharedCopy"
  /\ UseCount(last.dst) = 3
  /\ Cardinality(SharedOn(sp[last.dst].block_)) = 3

\* the payload a member pointer lives in (0 for a local)
SharedOwner(s) == IF s \in RootShared THEN 0 ELSE s - Cardinality(RootShared)

\* one step of the release of the last SharedPtr / the last WeakPtr of a block
C4_Step ==
  \A b \in Blocks :
    /\ ( /\ last'.op \in {"SharedReset", "SharedDestroy"}
         /\ SharedOn(b) = {last'.dst}
         /\ WeakOn(b) # {} ) =>
         /\ obj'[b].dtors = obj[b].dtors + 1
         /\ blk'[b].st = "live"
         /\ \A w \in WeakOn(b) :
              wp'[w].block_ = b /\ blk'[b].shared_counter_ = 0
    /\ ( /\ last'.op \in {"WeakReset", "WeakDestroy"}
         /\ WeakOn(b) = {last'.dst}
         /\ SharedOn(b) = {} ) =>
         /\ blk'[b].st = "freed"
         /\ blk'[b].frees = 1
         /\ obj'[b].dtors = obj[b].dtors

\* C4: with one SharedPtr and some WeakPtr on a block, releasing the
\* SharedPtr destroys the payload in that step, keeps the block allocated
\* and leaves every attached WeakPtr expired; releasing the last WeakPtr of
\* a block without SharedPtr frees the block and destroys nothing.
C4_LastSharedThenLastWeak == [][C4_Step]_vars

\* one step of Lock() on a WeakPtr whose block has strong count 0
C5_Step ==
  ( /\ last'.op = "WeakLock"
    /\ wp[last'.src].block_ # NullPtr
    /\ blk[wp[last'.src].block_].shared_counter_ = 0 ) =>
    /\ last'.thrown = "none"
    /\ sp'[last'.dst].alive
    /\ sp'[last'.dst].block_ = NullPtr
    /\ sp'[last'.dst].obj_ = NullPtr
    /\ UseCountAfter(last'.dst) = 0
    /\ blk'[wp[last'.src].block_].shared_counter_ = 0

\* C5: Lock() on a WeakPtr whose block has strong count 0 returns an empty
\* SharedPtr (no block, UseCount 0, Get null) and leaves the count at 0.
C5_LockExpiredIsEmpty == [][C5_Step]_vars

\* one step of SharedPtr<T>(weak)
C6_Step ==
  last'.op = "SharedPromote" =>
    LET b == wp[last'.src].block_
        ok == b # NullPtr /\ blk[b].shared_counter_ # 0
    IN /\ ok => /\ last'.thrown = "none"
                /\ sp'[last'.dst].block_ = b
                /\ blk'[b].shared_counter_ = blk[b].shared_counter_ + 1
       /\ ~ok => /\ last'.thrown = "BadWeakPtr"
                 /\ ~sp'[last'.dst].alive
                 /\ blk' = blk

\* C6: strict promotion succeeds (count + 1) iff the WeakPtr has a block
\* whose strong count is nonzero; otherwise it throws BadWeakPtr and changes
\* no count.
C6_StrictPromotion == [][C6_Step]_vars

\* operations that release what their destination held
ReleasingOps ==
  {"SharedReset", "SharedDestroy", "SharedCopyAssign", "SharedMoveAssign"}

\* q is attached to b before and after the step, and the step neither
\* releases q nor destroys the payload q is a member of
KeepsHolding(q, b) ==
  /\ sp[q].alive /\ sp[q].block_ = b
  /\ sp'[q].alive /\ sp'[q].block_ = b
  /\ ~(last'.dst = q /\ last'.op \in ReleasingOps)
  /\ SharedOwner(q) # 0 => obj'[SharedOwner(q)].st = "alive"

\* one step seen from an aliasing pointer
C7_Step ==
  /\ (last'.op = "SharedAlias" /\ sp[last'.src].block_ # NullPtr) =>
       LET b == sp[last'.src].block_ IN
       /\ sp'[last'.dst].obj_ = last'.arg
       /\ sp'[last'.dst].block_ = b
       /\ blk'[b].shared_counter_ = blk[b].shared_counter_ + 1
       /\ UseCountAfter(last'.dst) = UseCountAfter(last'.src)
       /\ sp'[last'.src] = sp[last'.src]
  /\ \A q \in SharedSlots, b \in Blocks :
       (KeepsHolding(q, b) /\ obj[b].st = "alive") =>
         (obj'[b].st = "alive" /\ obj'[b].dtors = obj[b].dtors)
  /\ \A b \in Blocks :
       ( /\ last'.op \in {"SharedReset", "SharedDestroy"}
         /\ SharedOn(b) = {last'.dst}
         /\ sp[last'.dst].obj_ # b
         /\ obj[b].st = "alive" ) =>
         (obj'[b].st # "alive" /\ obj'[b].dtors >= 1)

\* C7: the aliasing constructor q(p, a) gives Get() = a, shares p's block
\* with the count raised by 1 (q.UseCount() = p.UseCount()); a live payload
\* stays alive in every step that leaves such a q attached, and is destroyed
\* when q, as the last owner, is released.
C7_Aliasing == [][C7_Step]_vars

\* C7 witness: the original owner has just been destroyed and the payload is
\* alive, held by the aliasing pointer alone.
C7_Witness ==
  /\ last.op = "SharedDestroy"
  /\ \E q \in SharedSlots :
       /\ sp[q].alive /\ sp[q].obj_ = FieldAddr
       /\ sp[q].block_ # NullPtr
       /\ UseCount(q) = 1
       /\ obj[sp[q].block_].st = "alive"

\* C8: when the payload constructor fails inside MakeShared the block is
\* freed exactly once, no destructor of the payload runs, and the failure
\* reaches the caller (no SharedPtr is made).
C8_MakeSharedFailure ==
  (last.op = "MakeShared" /\ last.thrown = "ctor") =>
    /\ blk[last.arg].frees = 1
    /\ obj[last.arg].dtors = 0
    /\ ~sp[last.dst].alive

\* one step of a SharedPtr / WeakPtr move
C9_Step ==
  /\ (last'.op \in {"SharedMove", "SharedMoveAssign"}
        /\ last'.dst # last'.src) =>
       /\ sp'[last'.src].obj_ = NullPtr /\ sp'[last'.src].block_ = NullPtr
       /\ sp'[last'.dst].obj_ = sp[last'.src].obj_
       /\ sp'[last'.dst].block_ = sp[last'.src].block_
  /\ (last'.op \in {"WeakMove", "WeakMoveAssign"}
        /\ last'.dst # last'.src) =>
       /\ wp'[last'.src].obj_ = NullPtr /\ wp'[last'.src].block_ = NullPtr
       /\ wp'[last'.dst].obj_ = wp[last'.src].obj_
       /\ wp'[last'.dst].block_ = wp[last'.src].block_

\* C9: a move (construction or assignment, SharedPtr or WeakPtr) from a
\* different object empties the source and gives the destination the
\* source's prior address and block.
C9_MoveTransfers == [][C9_Step]_vars

UniqueMoveOps ==
  {"UniqueMove", "UniqueConvMove", "UniqueMoveAssign", "UniqueConvMoveAssign"}

\* one step of a UniquePtr move, or of the destruction of an empty UniquePtr
C10_Step ==
  /\ (last'.op \in UniqueMoveOps /\ last'.dst # last'.src) =>
       /\ up'[last'.src].first = NullPtr
       /\ up'[last'.dst].first = up[last'.src].first
       /\ up'[last'.dst].second = up[last'.src].second
       /\ up[last'.src].first # NullPtr =>
            uobj'[up[last'.src].first].disposed =
              uobj[up[last'.src].first].disposed
       /\ ( /\ last'.op \in {"UniqueMoveAssign", "UniqueConvMoveAssign"}
            /\ up[last'.dst].first # NullPtr ) =>
            uobj'[up[last'.dst].first].disposed =
              uobj[up[last'.dst].first].disposed + 1
  /\ (last'.op = "UniqueDestroy" /\ up[last'.dst].first = NullPtr) =>
       uobj' = uobj

\* C10: a UniquePtr move (construction or assignment) from another object
\* gives the destination the source's handle and deleter and leaves the
\* source null; move assignment disposes of the destination's previous
\* handle exactly once; destroying a moved-from pointer disposes of nothing.
C10_UniqueMove == [][C10_Step]_vars

\* one step of UniquePtr::Reset(ptr)
C11_Step ==
  last'.op = "UniqueReset" =>
    LET s == last'.dst
        old == up[s].first
    IN /\ old # NullPtr =>
            /\ uobj'[old].disposed = uobj[old].disposed + 1
            /\ uobj'[old].by = up[s].second
       /\ old = NullPtr =>
            \A o \in UObjs : uobj'[o].disposed = uobj[o].disposed
       /\ up'[s].alive => up'[s].first = last'.arg
       /\ ub' = "none"

\* C11: Reset(p) disposes of the handle held before exactly once, with the
\* deleter stored at the time of the call, calls no deleter when that handle
\* was null, and leaves Get() = p (null without argument).
C11_UniqueReset == [][C11_Step]_vars

\* C11 witness: Reset(p) with a new object has just disposed of the previous
\* one through the deleter the pointer was made with.
C11_Witness ==
  /\ last.op = "UniqueReset"
  /\ last.arg # NullPtr
  /\ up[last.dst].first = last.arg
  /\ \E o \in UObjs : uobj[o].disposed = 1 /\ uobj[o].by # DefaultDeleter

\* one step of UniquePtr::Release()
C12_Step ==
  last'.op = "UniqueRelease" =>
    /\ last'.arg = up[last'.dst].first
    /\ \A o \in UObjs :
         uobj'[o].disposed = uobj[o].disposed /\ uobj'[o].st = uobj[o].st
    /\ up'[last'.dst].first = NullPtr

\* a handle given back by Release() is not disposed of
C12_ReleasedStaysAlive ==
  \A o \in UObjs :
    uobj[o].released => (uobj[o].disposed = 0 /\ uobj[o].st = "alive")

\* C12: Release() returns the held handle, calls no deleter, leaves the
\* pointer empty, and no later operation, the destruction of the pointer
\* included, disposes of the released handle.
C12_UniqueRelease == []C12_ReleasedStaysAlive /\ [][C12_Step]_vars

\* C12 witness: the pointer that released its object has been destroyed and
\* the object is still there.
C12_Witness ==
  /\ last.op = "UniqueDestroy"
  /\ ops = 3
  /\ \E o \in UObjs :
       uobj[o].released /\ uobj[o].disposed = 0 /\ uobj[o].st = "alive"

\* IntrusivePtr holding object o
HoldersOf(o) == {s \in IntrusiveSlots : ip[s].alive /\ ip[s].obj_ = o}

\* the operations C13 speaks of
C13Ops ==
  {"IntrusiveMake", "IntrusiveFromRaw", "IntrusiveCopy", "IntrusiveMove",
   "IntrusiveConvMove", "IntrusiveCopyAssign", "IntrusiveMoveAssign",
   "IntrusiveReset", "IntrusiveSwap", "IntrusiveDestroy"}

\* after the step every object that was made has as count the number of
\* IntrusivePtr holding it, is alive as long as that number is not 0, and has
\* been destroyed once when it is 0
C13_Step ==
  last'.op \in C13Ops =>
    \A o \in IObjs :
      iobj'[o].st # "none" =>
        LET n == Cardinality({s \in IntrusiveSlots :
                                ip'[s].alive /\ ip'[s].obj_ = o})
        IN /\ iobj'[o].count_ = n
           /\ n > 0 => (iobj'[o].st = "alive" /\ iobj'[o].destroys = 0)
           /\ n = 0 => (iobj'[o].st = "destroyed" /\ iobj'[o].destroys = 1)

\* C13: over construct-from-raw, copy, move, copy/move assignment, Reset(),
\* Swap and destroy, RefCount() of a payload is the number of live
\* IntrusivePtr holding it, and the payload is destroyed exactly once, at the
\* step where the count reaches 0.
C13_IntrusiveCount == [][C13_Step]_vars

\* one step of the self-referencing variant
C14_Step ==
  /\ last'.op \in {"EsftFromRaw", "EsftMakeShared"} =>
       LET b == last'.arg IN
       /\ ewp'[EThisSlot(b)].alive
       /\ ewp'[EThisSlot(b)].block_ = b
       /\ ewp'[EThisSlot(b)].obj_ = b
       /\ esp'[last'.dst].block_ = b
       /\ eblk'[b].shared_counter_ = 1
       /\ eblk'[b].weak_counter_ = 1
  /\ last'.op = "EsftSharedFromThis" =>
       LET b == last'.arg IN
       /\ esp'[last'.dst].block_ = b
       /\ esp'[last'.dst].obj_ = b
       /\ eblk'[b].shared_counter_ = eblk[b].shared_counter_ + 1
       /\ \A s \in ERootShared :
            (esp[s].alive /\ esp[s].block_ = b) =>
              eblk'[esp'[s].block_].shared_counter_ =
                eblk[esp[s].block_].shared_counter_ + 1
  /\ last'.op \in {"EsftSharedReset", "EsftSharedDestroy"} =>
       \A b \in EBlocks :
         (eblk[b].shared_counter_ = 1 /\ esp[last'.dst].block_ = b) =>
           /\ eblk'[b].dtors = 1
           /\ eblk'[b].data = "destroyed"
           /\ ~ewp'[EThisSlot(b)].alive

Stateless(T) == T.empty /\ ~T.final

BothStateless == Stateless(cp.F) /\ Stateless(cp.S)

C16_AttachedKeepsAlive ==
  \A b \in Blocks :
    (blk[b].st = "live" /\ blk[b].shared_counter_ > 0) => obj[b].st = "alive"

\* a WeakPtr that is attached, reports Expired() and keeps its block over the
\* step still reports Expired() after it
C17_Step ==
  \A w \in WeakSlots :
    ( /\ wp[w].alive /\ wp[w].block_ # NullPtr /\ Expired(w)
      /\ wp'[w].alive /\ wp'[w].block_ = wp[w].block_ ) => Expired(w)'

\* C17: expiration is permanent: once Expired() is true for a WeakPtr
\* attached to a block, it stays true for every WeakPtr attached to that
\* block, whatever is called in between (Lock() included), as long as the
\* WeakPtr is not reassigned.
C17_ExpiredForever == [][C17_Step]_vars

\* C18: the strong count of a block is the number of live SharedPtr attached
\* to it and its weak count the number of live WeakPtr attached to it, so no
\* counter is decremented at 0 (a size_t below 0 has wrapped around).
C18_CountsArePointers ==
  \A b \in Blocks :
    /\ blk[b].shared_counter_ >= 0
    /\ blk[b].weak_counter_ >= 0
    /\ blk[b].st = "live" =>
         /\ blk[b].shared_counter_ = Cardinality(SharedOn(b))
         /\ blk[b].weak_counter_ = Cardinality(WeakOn(b))

\* the calls that construct, copy, assign, move, reset or destroy a WeakPtr
WeakOnlyOps ==
  {"WeakDefault", "WeakCopy", "WeakMove", "WeakFromShared", "WeakCopyAssign",
   "WeakMoveAssign", "WeakReset", "WeakDestroy", "WeakSwap"}

\* no strong count changes in a call on a WeakPtr, or in a Lock() or strict
\* promotion that does not succeed (the WeakPtr is empty or expired)
C19_Step ==
  /\ last'.op \in WeakOnlyOps =>
       \A b \in Blocks : blk'[b].shared_counter_ = blk[b].shared_counter_
  /\ (last'.op \in {"WeakLock", "SharedPromote"} /\ Expired(last'.src)) =>
       \A b \in Blocks : blk'[b].shared_counter_ = blk[b].shared_counter_

\* C19: constructing, copying, copy-assigning, moving, resetting or
\* destroying a WeakPtr, and Expired() or UseCount() on it, leave the strong
\* count of every block unchanged; only a successful Lock() or strict
\* promotion changes a strong count.
C19_WeakLeavesStrong == [][C19_Step]_vars

\* pointers of the self-referencing variant attached to block b
ESharedOn(b) == {s \in ERootShared : esp[s].alive /\ esp[s].block_ = b}
EWeakOn(b) == {w \in EWeakSlots : ewp[w].alive /\ ewp[w].block_ = b}

\* a Reset() or destruction of a WeakPtr that leaves its block with both
\* counts 0 frees the block
C20_Step ==
  ( /\ last'.op \in {"EsftWeakReset", "EsftWeakDestroy"}
    /\ ewp[last'.dst].block_ # NullPtr ) =>
    LET b == ewp[last'.dst].block_ IN
    (eblk'[b].shared_counter_ = 0 /\ eblk'[b].weak_counter_ = 0) =>
      eblk'[b].st = "freed"

\* a block that no SharedPtr and no WeakPtr references has been freed
C20_NoUnreferencedBlock ==
  \A b \in EBlocks :
    (eblk[b].st # "none" /\ ESharedOn(b) = {} /\ EWeakOn(b) = {}) =>
      eblk[b].st = "freed"

\* C20: no block is leaked: a WeakPtr destruction or Reset() that brings a
\* block to strong count 0 and weak count 0 frees it in that step, also for
\* the WeakPtr built by WeakPtr(obj, block) and those copy-assigned from
\* them; once no SharedPtr or WeakPtr references a block it has been freed.
C20_NoBlockLeak == []C20_NoUnreferencedBlock /\ [][C20_Step]_vars

\* an assignment p = p->next (or p = std::move(p->next)): the source is the
\* member next of the payload that the destination alone owns
C21_Step ==
  ( /\ last'.op \in {"SharedCopyAssign", "SharedMoveAssign"}
    /\ last'.dst \in RootShared
    /\ SharedOwner(last'.src) # 0
    /\ last'.src = NextSlot(SharedOwner(last'.src))
    /\ sp[last'.dst].block_ = SharedOwner(last'.src)
    /\ sp[last'.dst].obj_ = SharedOwner(last'.src)
    /\ blk[SharedOwner(last'.src)].shared_counter_ = 1
    /\ sp[last'.src].block_ \notin {NullPtr, SharedOwner(last'.src)} ) =>
    /\ ub' = "none"
    /\ sp'[last'.dst].block_ = sp[last'.src].block_
    /\ sp'[last'.dst].obj_ = sp[last'.src].obj_
    /\ obj'[sp[last'.src].block_].st = "alive"
    /\ blk'[sp[last'.src].block_].st = "live"

\* C21: SharedPtr copy and move assignment take over the source's address
\* and block without depending on the release of the destination's previous
\* ownership: in p = p->next, with p the sole owner of the payload, the
\* source is never read after that payload has been destroyed and p ends up
\* owning what the source referred to.
C21_AssignFromOwnMember == [][C21_Step]_vars

\* the UniquePtr objects holding the handle o
UniqueHolders(o) == {s \in UniqueSlots : up[s].alive /\ up[s].first = o}

\* C22: exclusive ownership: every non-null handle is held by at most one
\* UniquePtr at a time, is disposed at most once, and has been disposed
\* exactly once when all UniquePtr objects are destroyed, unless Release()
\* handed it back.
C22_ExclusiveOwnership ==
  \A o \in UObjs :
    /\ Cardinality(UniqueHolders(o)) <= 1
    /\ uobj[o].disposed <= 1
    /\ ( /\ uobj[o].st # "none"
         /\ ~uobj[o].released
         /\ \A s \in UniqueSlots : ~up[s].alive ) => uobj[o].disposed = 1

C22_Witness ==
  /\ last.op = "UniqueDestroy"
  /\ \A s \in UniqueSlots : ~up[s].alive
  /\ \A o \in UObjs : uobj[o].st # "none" /\ uobj[o].disposed = 1
  /\ ub = "none"

C23_Step ==
  ( /\ last'.op = "UniqueReset"
    /\ last'.dst \in RootUnique
    /\ up[last'.dst].alive ) =>
    /\ ub' = "none"
    /\ up'[last'.dst].first = last'.arg
    /\ up'[last'.dst].second = up[last'.dst].second

\* C23: Reset(), with or without a new handle, changes only the held handle:
\* the deleter stored in the pointer after the call is the deleter, in the
\* state, that was stored before the call
C23_ResetKeepsDeleter == [][C23_Step]_vars

\* the payload an IntrusiveResetTo or IntrusiveCopyAssign step hands to the
\* pointer: the argument of Reset(ptr), the payload of the source
C24_Given ==
  IF last'.op = "IntrusiveResetTo" THEN last'.arg ELSE ip[last'.src].obj_

C24_Step ==
  /\ ub' # "object_use_after_destroy"
  /\ ( /\ last'.op \in {"IntrusiveResetTo", "IntrusiveCopyAssign"}
       /\ ip[last'.dst].obj_ # NullPtr
       /\ C24_Given = ip[last'.dst].obj_
       /\ iobj[C24_Given].st = "alive" ) =>
       /\ ub' = "none"
       /\ ip'[last'.dst].obj_ = C24_Given
       /\ iobj'[C24_Given].st = "alive"
       /\ iobj'[C24_Given].count_ = iobj[C24_Given].count_

\* C24: no IntrusivePtr operation uses the counter of a payload that has
\* been destroyed; Reset(ptr) and copy-assignment whose ptr or source is the
\* payload the pointer already holds, count 1 included, leave the payload
\* alive and held with its count unchanged
C24_NoCounterUseAfterDestroy == [][C24_Step]_vars

C25_Step ==
  last'.op = "IntrusivePayloadAssign" =>
    /\ ub' = "none"
    /\ ip' = ip
    /\ \A o \in {ip[last'.dst].obj_, ip[last'.src].obj_} :
         /\ iobj'[o].count_ = iobj[o].count_
         /\ iobj'[o].count_ = Cardinality(HoldersOf(o)')
         /\ iobj'[o].st = iobj[o].st

\* C25: assigning one RefCounted payload to another leaves the reference
\* count of both payloads unchanged: each still records the number of
\* IntrusivePtr that hold it
C25_PayloadAssignKeepsCounts == [][C25_Step]_vars

\* a payload held twice has been assigned from a payload held once
C25_Witness ==
  /\ last.op = "IntrusivePayloadAssign"
  /\ ub = "none"
  /\ ip[last.dst].obj_ # ip[last.src].obj_
  /\ iobj[ip[last.dst].obj_].count_ = 2
  /\ iobj[ip[last.src].obj_].count_ = 1
====
